---------------------------- MODULE Spec2Model ----------------------------
(***************************************************************************)
(* A model of mozsessiontool (src/mozsessiontool.py): the session-file     *)
(* classes (MozSession1, MozSessionProfile2/3/4), the locator              *)
(* get_sessionstore, the checkpoint interpreter showcheckpoint and one run *)
(* of main() over a small file system.                                     *)
(*                                                                         *)
(* Python values are modelled directly: a dict is a function whose domain  *)
(* is its set of keys (a missing key is a key outside DOMAIN), a list is a *)
(* sequence, and list indexing follows Python (0-based, negative indices   *)
(* count from the end, anything else raises IndexError).  A file is the    *)
(* sequence of lexemes it holds; json.dumps / json.load are a serializer   *)
(* and a parser over such sequences.                                       *)
(***************************************************************************)
EXTENDS Integers, Sequences, FiniteSets, TLC

(***************************************************************************)
(* Bounds of the model.                                                    *)
(***************************************************************************)
MaxWindows == 2
MaxTabs == 2

(***************************************************************************)
(* Generic helpers.                                                        *)
(***************************************************************************)
Max(a, b) == IF a >= b THEN a ELSE b
Min(a, b) == IF a <= b THEN a ELSE b

\* xs with its element at 1-based position i removed.
RemoveAt(xs, i) == SubSeq(xs, 1, i - 1) \o SubSeq(xs, i + 1, Len(xs))

\* Python's d with key k deleted / with key k set to v.
DelKey(d, k) == [x \in DOMAIN d \ {k} |-> d[x]]
SetKey(d, k, v) == (k :> v) @@ d

\* Python's xs[i]: whether it raises IndexError, and the 1-based position read.
PyIndexOk(xs, i) == -Len(xs) <= i /\ i < Len(xs)
PyIndexPos(xs, i) == IF i >= 0 THEN i + 1 ELSE Len(xs) + i + 1

(***************************************************************************)
(* Files.  A file's contents is a sequence of lexemes.                      *)
(***************************************************************************)
LBrace == [t |-> "{"]
RBrace == [t |-> "}"]
LBracket == [t |-> "["]
RBracket == [t |-> "]"]
KeyTok(k) == [t |-> "key", v |-> k]
ValTok(x) == [t |-> "val", v |-> x]

\* f.write(s) at offset pos of a file holding old (offsets count lexemes).
FileWrite(old, pos, s) ==
    SubSeq(old, 1, pos) \o s \o SubSeq(old, pos + Len(s) + 1, Len(old))
\* f.truncate() at offset pos.
FileTruncate(old, pos) == SubSeq(old, 1, pos)

(***************************************************************************)
(* json.load: a recursive-descent parser.  Each parser returns             *)
(* [ok, val, next]: whether a value was read at position i, the value, and *)
(* the position after it.  An object becomes a function on its keys, an    *)
(* array a sequence, a scalar itself.                                      *)
(***************************************************************************)
ParseFail == [ok |-> FALSE, val |-> 0, next |-> 0]

RECURSIVE ParseValue(_, _), ParseArray(_, _, _), ParseObject(_, _, _)
ParseValue(toks, i) ==
    IF i > Len(toks) THEN ParseFail
    ELSE CASE toks[i].t = "val" -> [ok |-> TRUE, val |-> toks[i].v, next |-> i + 1]
           [] toks[i].t = "[" -> ParseArray(toks, i + 1, <<>>)
           [] toks[i].t = "{" -> ParseObject(toks, i + 1, <<>>)
           [] OTHER -> ParseFail

\* The array so far is acc; r is the element just parsed.
ArrayElement(toks, acc, r) ==
    IF r.ok THEN ParseArray(toks, r.next, Append(acc, r.val)) ELSE ParseFail

ParseArray(toks, i, acc) ==
    IF i > Len(toks) THEN ParseFail
    ELSE IF toks[i].t = "]" THEN [ok |-> TRUE, val |-> acc, next |-> i + 1]
    ELSE ArrayElement(toks, acc, ParseValue(toks, i))

\* The object so far is acc; r is the value just parsed for key.  A key that
\* occurs twice keeps its last value.
ObjectMember(toks, acc, key, r) ==
    IF r.ok THEN ParseObject(toks, r.next, (key :> r.val) @@ acc) ELSE ParseFail

ParseObject(toks, i, acc) ==
    IF i > Len(toks) THEN ParseFail
    ELSE IF toks[i].t = "}" THEN [ok |-> TRUE, val |-> acc, next |-> i + 1]
    ELSE IF toks[i].t # "key" THEN ParseFail
    ELSE ObjectMember(toks, acc, toks[i].v, ParseValue(toks, i + 1))

\* The text must end where its one value ends.
WholeText(toks, r) ==
    IF r.ok /\ r.next = Len(toks) + 1 THEN [ok |-> TRUE, val |-> r.val]
    ELSE [ok |-> FALSE, val |-> 0]

\* json.load(fd) / json.loads(s)
JsonLoads(toks) == WholeText(toks, ParseValue(toks, 1))

(***************************************************************************)
(* json.dumps of the documents the tool holds.  TLA+ values carry no type  *)
(* tag, so the serializer follows the shape of a session document: scalar  *)
(* keys, then the nested lists and objects.  A key that is absent from a   *)
(* dict is not written.                                                    *)
(***************************************************************************)
Scalar(d, k) == IF k \in DOMAIN d THEN <<KeyTok(k), ValTok(d[k])>> ELSE <<>>

RECURSIVE DumpEntries(_), DumpTab(_), DumpTabs(_), DumpClosedTabs(_)
RECURSIVE DumpWindow(_), DumpWindows(_), DumpDoc(_)

DumpEntry(e) == <<LBrace>> \o Scalar(e, "url") \o Scalar(e, "title") \o <<RBrace>>

DumpEntries(es) ==
    IF es = <<>> THEN <<>> ELSE DumpEntry(Head(es)) \o DumpEntries(Tail(es))

DumpFormdata(fd) ==
    <<LBrace>> \o Scalar(fd, "url")
        \o (IF "id" \in DOMAIN fd
            THEN <<KeyTok("id"), LBrace, KeyTok("sessionData")>>
                     \o DumpDoc(fd.id.sessionData) \o <<RBrace>>
            ELSE <<>>)
        \o <<RBrace>>

DumpTab(tab) ==
    <<LBrace>>
        \o (IF "entries" \in DOMAIN tab
            THEN <<KeyTok("entries"), LBracket>> \o DumpEntries(tab.entries) \o <<RBracket>>
            ELSE <<>>)
        \o Scalar(tab, "index") \o Scalar(tab, "userTypedValue")
        \o Scalar(tab, "title") \o Scalar(tab, "image")
        \o (IF "formdata" \in DOMAIN tab
            THEN <<KeyTok("formdata")>> \o DumpFormdata(tab.formdata)
            ELSE <<>>)
        \o <<RBrace>>

DumpTabs(ts) == IF ts = <<>> THEN <<>> ELSE DumpTab(Head(ts)) \o DumpTabs(Tail(ts))

DumpClosedTab(c) ==
    <<LBrace>> \o Scalar(c, "closedAt") \o Scalar(c, "pos")
        \o <<KeyTok("state")>> \o DumpTab(c.state)
        \o Scalar(c, "title") \o Scalar(c, "image") \o <<RBrace>>

DumpClosedTabs(cs) ==
    IF cs = <<>> THEN <<>> ELSE DumpClosedTab(Head(cs)) \o DumpClosedTabs(Tail(cs))

DumpWindow(w) ==
    <<LBrace, KeyTok("tabs"), LBracket>> \o DumpTabs(w.tabs) \o <<RBracket>>
        \o Scalar(w, "selected")
        \o <<KeyTok("_closedTabs"), LBracket>> \o DumpClosedTabs(w._closedTabs)
        \o <<RBracket>>
        \o Scalar(w, "screenX") \o Scalar(w, "busy")
        \o Scalar(w, "closedAt") \o Scalar(w, "title") \o <<RBrace>>

DumpWindows(ws) ==
    IF ws = <<>> THEN <<>> ELSE DumpWindow(Head(ws)) \o DumpWindows(Tail(ws))

DumpSession(s) ==
    <<LBrace>> \o Scalar(s, "startTime") \o Scalar(s, "state")
        \o Scalar(s, "recentCrashes") \o <<RBrace>>

DumpDoc(d) ==
    <<LBrace>> \o Scalar(d, "selectedWindow")
        \o <<KeyTok("windows"), LBracket>> \o DumpWindows(d.windows) \o <<RBracket>>
        \o <<KeyTok("_closedWindows"), LBracket>> \o DumpWindows(d._closedWindows)
        \o <<RBracket>>
        \o <<KeyTok("session")>> \o DumpSession(d.session) \o <<RBrace>>

(***************************************************************************)
(* The checkpoint map.  showcheckpoint iterates over the items of the      *)
(* dict, so its insertion order is kept: the map is a sequence of [k, v]   *)
(* items with distinct keys, in the order of the file.                     *)
(***************************************************************************)
checkpointOrder ==
    << "profile-after-change", "final-ui-startup",
       "sessionstore-windows-restored", "quit-application-granted",
       "quit-application", "sessionstore-final-state-write-complete",
       "profile-change-net-teardown", "profile-change-teardown",
       "profile-before-change" >>

checkpointSkippable ==
    {"sessionstore-windows-restored", "sessionstore-final-state-write-complete"}

checkpointNames ==
    [e \in {checkpointOrder[i] : i \in DOMAIN checkpointOrder} |->
        CASE e = "profile-after-change" -> "Starting"
          [] e = "final-ui-startup" -> "Started, Loading session"
          [] e = "sessionstore-windows-restored" -> "Running"
          [] e = "quit-application-granted" -> "Stopping"
          [] e = "quit-application" -> "Hidden"
          [] e = "sessionstore-final-state-write-complete" -> "Session saved"
          [] e = "profile-change-net-teardown" -> "Session saved, Connections closed"
          [] e = "profile-change-teardown" ->
                 "Session saved, Connections closed, Profile closing"
          [] e = "profile-before-change" -> "Stopped"]

DictKeys(m) == {m[i].k : i \in DOMAIN m}
DictHas(m, k) == k \in DictKeys(m)
DictGet(m, k) == m[CHOOSE i \in DOMAIN m : m[i].k = k].v
\* m.pop(k)
DictPop(m, k) == SelectSeq(m, LAMBDA it : it.k # k)
\* m[k] = v: an existing key keeps its place, a new one goes last.
DictSet(m, k, v) ==
    IF DictHas(m, k)
    THEN [i \in DOMAIN m |-> IF m[i].k = k THEN [k |-> k, v |-> v] ELSE m[i]]
    ELSE Append(m, [k |-> k, v |-> v])

\* json.dumps(self.checkpoints) and json.load of it, keeping the order of the keys.
RECURSIVE DumpItems(_)
DumpItems(m) ==
    IF m = <<>> THEN <<>>
    ELSE <<KeyTok(Head(m).k), ValTok(Head(m).v)>> \o DumpItems(Tail(m))

DumpCheckpoints(m) == <<LBrace>> \o DumpItems(m) \o <<RBrace>>

RECURSIVE ParseItems(_, _, _)
ParseItems(toks, i, acc) ==
    IF i > Len(toks) THEN ParseFail
    ELSE IF toks[i].t = "}" THEN [ok |-> TRUE, val |-> acc, next |-> i + 1]
    ELSE IF toks[i].t # "key" \/ i + 1 > Len(toks) THEN ParseFail
    ELSE IF toks[i + 1].t # "val" THEN ParseFail
    ELSE ParseItems(toks, i + 2, DictSet(acc, toks[i].v, toks[i + 1].v))

LoadCheckpoints(toks) ==
    IF toks = <<>> THEN [ok |-> FALSE, val |-> 0]
    ELSE IF toks[1].t # "{" THEN [ok |-> FALSE, val |-> 0]
    ELSE WholeText(toks, ParseItems(toks, 2, <<>>))

(***************************************************************************)
(* showcheckpoint.  The string it returns is the sequence of its pieces.   *)
(***************************************************************************)
RECURSIVE JoinNames(_)
JoinNames(names) ==
    IF names = <<>> THEN <<>>
    ELSE IF Len(names) = 1 THEN <<names[1]>>
    ELSE <<names[1], ", ">> \o JoinNames(Tail(names))

RECURSIVE JoinItems(_)
JoinItems(m) ==
    IF m = <<>> THEN <<>>
    ELSE (IF Head(m).v = FALSE THEN <<"not ">> ELSE <<>>) \o <<Head(m).k>>
             \o (IF Len(m) = 1 THEN <<>> ELSE <<", ">> \o JoinItems(Tail(m)))

\* Lines 426-431: rest is assigned twice, the second assignment replacing the first.
SkippedRest(skipped, rest) ==
    IF skipped # <<>> THEN <<"; skipped: ">> \o JoinNames(skipped) ELSE rest
RemainingRest(work, rest) ==
    IF work # <<>> THEN <<"; ">> \o JoinItems(work) ELSE rest
ShowRest(skipped, work) == RemainingRest(work, SkippedRest(skipped, <<>>))

\* Lines 414-425: the scan, from the i-th event on.  It yields the state,
\* the working copy and the skipped events at the end of the loop.
RECURSIVE ScanCheckpoints(_, _, _, _)
\* ScanEvent, had it not popped a reached event from the working copy.
ScanEventKeep(i, event, state, work, skipped) ==
    IF DictHas(work, event) /\ DictGet(work, event) = TRUE
    THEN ScanCheckpoints(i + 1, <<checkpointNames[event], " (", event, ")">>,
                         work, skipped)
    ELSE IF event \in checkpointSkippable
    THEN ScanCheckpoints(i + 1, state, work,
                         IF ~DictHas(work, event) THEN Append(skipped, event) ELSE skipped)
    ELSE [state |-> state, work |-> work, skipped |-> skipped]

ScanEvent(i, event, state, work, skipped) ==
    IF DictHas(work, event) /\ DictGet(work, event) = TRUE
    THEN ScanCheckpoints(i + 1, <<checkpointNames[event], " (", event, ")">>,
                         DictPop(work, event), skipped)
    ELSE IF event \in checkpointSkippable
    THEN ScanCheckpoints(i + 1, state, work,
                         IF ~DictHas(work, event) THEN Append(skipped, event) ELSE skipped)
    ELSE [state |-> state, work |-> work, skipped |-> skipped]

ScanCheckpoints(i, state, work, skipped) ==
    IF i > Len(checkpointOrder) \/ work = <<>>
    THEN [state |-> state, work |-> work, skipped |-> skipped]
    ELSE ScanEvent(i, checkpointOrder[i], state, work, skipped)

ShowScan(r) == r.state \o ShowRest(r.skipped, r.work)

showcheckpoint(sessionCheckpoints) ==
    ShowScan(ScanCheckpoints(1, <<"Init">>, sessionCheckpoints, <<>>))

(***************************************************************************)
(* tabs_info: the current entry of a tab.  [ok, val]: ok is FALSE when the *)
(* code raises (KeyError on a tab with entries and no index, IndexError on *)
(* an index outside the entries).                                          *)
(***************************************************************************)
tabs_info(tab) ==
    IF "entries" \in DOMAIN tab /\ tab.entries # <<>>
    THEN IF "index" \in DOMAIN tab /\ PyIndexOk(tab.entries, tab.index - 1)
         THEN [ok |-> TRUE, val |-> tab.entries[PyIndexPos(tab.entries, tab.index - 1)]]
         ELSE [ok |-> FALSE, val |-> 0]
    ELSE IF "userTypedValue" \notin DOMAIN tab
    THEN [ok |-> TRUE,
          val |-> [url |-> "about:blank",
                   title |-> IF "title" \in DOMAIN tab THEN tab.title ELSE "New tab"]]
    ELSE [ok |-> TRUE,
          val |-> [url |-> tab.userTypedValue,
                   title |-> IF "title" \in DOMAIN tab THEN tab.title ELSE "Loading..."]]

(***************************************************************************)
(* The file system and the session-file classes.  A path is the sequence   *)
(* of its components; the file system maps the path of every regular file  *)
(* that exists to its contents.                                            *)
(***************************************************************************)
ProfilesRoot == "~/.mozilla/firefox"

\* The entries of the profiles directory a glob can match, each with the
\* name that follows its last "." (glob pattern "*." + name).
ProfileEntries ==
    << [entry |-> "x.default", suffix |-> "default"],
       [entry |-> "x.work", suffix |-> "work"] >>

\* SessionClasses, had the primary file been probed before the backups.
SessionClassesPrimaryFirst ==
    <<"MozSessionProfile2", "MozSessionProfile3", "MozSessionProfile4", "MozSession1">>

SessionClasses ==
    <<"MozSessionProfile4", "MozSessionProfile3", "MozSessionProfile2", "MozSession1">>

NoPath == <<>>

\* cls._get_filenames(path): the data file and the checkpoint file (or None).
GetFilenames(cls, path) ==
    CASE cls = "MozSession1" -> <<path, NoPath>>
      [] cls = "MozSessionProfile2" ->
            <<path \o <<"sessionstore.js">>, path \o <<"sessionCheckpoints.json">> >>
      [] cls = "MozSessionProfile3" ->
            <<path \o <<"sessionstore-backups", "recovery.js">>,
              path \o <<"sessionCheckpoints.json">> >>
      [] cls = "MozSessionProfile4" ->
            <<path \o <<"sessionstore-backups", "recovery.jsonlz4">>,
              path \o <<"sessionCheckpoints.json">> >>

IsFile(files, path) == path \in DOMAIN files

\* MozSessionBase.check: every filename that is not None is a regular file.
BaseCheck(files, cls, path) ==
    \A i \in 1..2 :
        LET fn == GetFilenames(cls, path)[i]
        IN fn # NoPath => IsFile(files, fn)

\* cls.check(path): "yes", "no", or "raise" (MozSessionProfile4 without lz4).
ClassCheck(files, haveLz4, cls, path) ==
    IF cls = "MozSessionProfile4"
    THEN IF ~BaseCheck(files, cls, path) THEN "no"
         ELSE IF ~haveLz4 THEN "raise"
         ELSE "yes"
    ELSE IF BaseCheck(files, cls, path) THEN "yes" ELSE "no"

\* A path exists when it is a file or a directory that holds one.
PathExists(files, p) ==
    \E f \in DOMAIN files : Len(f) >= Len(p) /\ SubSeq(f, 1, Len(p)) = p

\* glob.glob(profiles + "/*." + name) for one name.  A name is a path of
\* components: its first component completes the pattern "*.", the rest is
\* looked up below the entries that match.
Glob(files, name) ==
    SelectSeq([i \in DOMAIN ProfileEntries |->
                  IF ProfileEntries[i].suffix = Head(name)
                     /\ PathExists(files, <<ProfilesRoot, ProfileEntries[i].entry>>
                                              \o Tail(name))
                  THEN <<ProfilesRoot, ProfileEntries[i].entry>> \o Tail(name)
                  ELSE NoPath],
              LAMBDA q : q # NoPath)

\* get_profile_paths(names): the matches of every name, name by name.
RECURSIVE get_profile_paths(_, _)
get_profile_paths(files, names) ==
    IF names = <<>> THEN <<>>
    ELSE Glob(files, Head(names)) \o get_profile_paths(files, Tail(names))

\* The default value of names.
DefaultNames == << <<"default">>, <<"default-release">> >>

\* The loop "for cls in (...): if cls.check(path): return cls(path)" over the
\* paths of a list, from class c of its first path on.
NotFound == [status |-> "none"]

RECURSIVE ProbePaths(_, _, _, _)
Probe(files, haveLz4, paths, c, r) ==
    IF r = "raise" THEN [status |-> "RuntimeError"]
    ELSE IF r = "yes"
    THEN [status |-> "found", cls |-> SessionClasses[c], path |-> Head(paths)]
    ELSE ProbePaths(files, haveLz4, paths, c + 1)

ProbePaths(files, haveLz4, paths, c) ==
    IF paths = <<>> THEN NotFound
    ELSE IF c > Len(SessionClasses) THEN ProbePaths(files, haveLz4, Tail(paths), 1)
    ELSE Probe(files, haveLz4, paths, c,
               ClassCheck(files, haveLz4, SessionClasses[c], Head(paths)))

\* Lines 386-394.
get_profile_sessionstore(files, haveLz4, names) ==
    ProbePaths(files, haveLz4, get_profile_paths(files, names), 1)

\* first unless it found nothing, then the next lookup.
OrElse(first, next) == IF first.status # "none" THEN first ELSE next

\* Lines 397-407: the path itself, then the path as a profile name, then the
\* default profile.
get_sessionstore(files, haveLz4, path) ==
    IF path # NoPath
    THEN OrElse(OrElse(ProbePaths(files, haveLz4, <<path>>, 1),
                       ProbePaths(files, haveLz4, get_profile_paths(files, <<path>>), 1)),
                get_profile_sessionstore(files, haveLz4, DefaultNames))
    ELSE get_profile_sessionstore(files, haveLz4, DefaultNames)

(***************************************************************************)
(* Loading and saving.  An lz4 data file is the 8-byte magic header (one   *)
(* lexeme) followed by one compressed block; lz4.block.compress packs a    *)
(* text into a block and lz4.block.decompress unpacks exactly such a block.*)
(***************************************************************************)
magicheader == [t |-> "bytes", v |-> "mozLz40"]

Lz4Compress(text) == <<[t |-> "lz4block", size |-> Len(text), v |-> text]>>
Lz4Decompress(bytes) ==
    IF Len(bytes) = 1 /\ bytes[1].t = "lz4block"
    THEN [ok |-> TRUE, val |-> bytes[1].v]
    ELSE [ok |-> FALSE, val |-> <<>>]

IsLZ4(cls) == cls = "MozSessionProfile4"
HasCheckPoints(cls) == cls # "MozSession1"

\* cls(path): the store object, with its two filenames.
NewStore(cls, path) ==
    [cls |-> cls,
     sessionstore_fn |-> GetFilenames(cls, path)[1],
     checkpoints_fn |-> GetFilenames(cls, path)[2]]

\* SessionStoreLZ4Mixin._open_sessionstore: read(8) must be the magic header.
OpenSessionstoreOk(files, st) ==
    IsLZ4(st.cls) =>
        /\ files[st.sessionstore_fn] # <<>>
        /\ files[st.sessionstore_fn][1] = magicheader

\* _read_sessionstore of the two mixins.
LoadsBlock(s) == IF s.ok THEN JsonLoads(s.val) ELSE [ok |-> FALSE, val |-> 0]

ReadSessionstore(files, st) ==
    IF IsLZ4(st.cls) THEN LoadsBlock(Lz4Decompress(Tail(files[st.sessionstore_fn])))
    ELSE JsonLoads(files[st.sessionstore_fn])

\* _read_checkpoints: None (the empty option) without a checkpoints file name.
Loaded(r) == IF r.ok THEN [ok |-> TRUE, val |-> <<r.val>>] ELSE [ok |-> FALSE, val |-> <<>>]

ReadCheckpoints(files, st) ==
    IF ~HasCheckPoints(st.cls) \/ st.checkpoints_fn = NoPath
    THEN [ok |-> TRUE, val |-> <<>>]
    ELSE Loaded(LoadCheckpoints(files[st.checkpoints_fn]))

\* store.load(): open both files, then read both; any failure is an exception.
\* checkpoints is an option: <<>> for None, <<map>> for a loaded map.
LoadBoth(d, c) ==
    IF d.ok /\ c.ok THEN [ok |-> TRUE, sessionstore |-> d.val, checkpoints |-> c.val]
    ELSE [ok |-> FALSE]

Load(files, st) ==
    IF ~OpenSessionstoreOk(files, st) THEN [ok |-> FALSE]
    ELSE LoadBoth(ReadSessionstore(files, st), ReadCheckpoints(files, st))

\* _write_sessionstore: serialize, seek(0, 0), truncate(), write(s).
EncodeSessionstore(cls, doc) ==
    IF IsLZ4(cls) THEN <<magicheader>> \o Lz4Compress(DumpDoc(doc)) ELSE DumpDoc(doc)

WriteSessionstore(files, st, doc) ==
    [files EXCEPT ![st.sessionstore_fn] =
        FileWrite(FileTruncate(@, 0), 0, EncodeSessionstore(st.cls, doc))]

\* _write_checkpoints: nothing for NoCheckPointsMixin.
WriteCheckpoints(files, st, cp) ==
    IF ~HasCheckPoints(st.cls) THEN files
    ELSE [files EXCEPT ![st.checkpoints_fn] =
             FileWrite(FileTruncate(@, 0), 0, DumpCheckpoints(cp[1]))]

\* store.save()
Save(files, st, doc, cp) == WriteCheckpoints(WriteSessionstore(files, st, doc), st, cp)

(***************************************************************************)
(* main().  An optional argument is an option: <<>> for None, <<n>> for a  *)
(* given n.  Each step of main is an operator; a step that raises yields   *)
(* ok = FALSE and the exception as err.                                    *)
(***************************************************************************)
None == <<>>

\* Lines 528-533: the argument checks made before anything is opened.
ArgumentError(a) ==
    \/ a.action = "wselect" /\ a.window = None
    \/ a.action = "tselect" /\ a.tab = None
    \/ a.pretend /\ a.action = "none"

\* DefaultIndex, had it also forced a given index into the range.
ClampedIndex(given, selected, n) ==
    Min(Max(1, IF given = None THEN selected ELSE given[1]), n)

\* Lines 544-546 and 550-552: an index that was not given is the stored
\* selection, raised to 1 and lowered to the length n.
DefaultIndex(given, selected, n) ==
    IF given = None THEN Min(Max(1, selected), n) ELSE given[1]

InRange(i, n) == 1 <= i /\ i <= n

\* Lines 544-555: the window and the tab of the run, or parser.error; err
\* names the argument that is out of range ("" for none).  A tab is looked
\* up only once the window is in range.
DataCheckTab(w, t, ntabs) ==
    [err |-> IF InRange(t, ntabs) THEN "" ELSE "t", window |-> <<w>>, tab |-> <<t>>]

DataCheckWindow(doc, a, w) ==
    IF ~InRange(w, Len(doc.windows)) THEN [err |-> "w", window |-> <<w>>, tab |-> a.tab]
    ELSE DataCheckTab(w, DefaultIndex(a.tab, doc.windows[w].selected,
                                      Len(doc.windows[w].tabs)),
                      Len(doc.windows[w].tabs))

DataCheck(doc, a) ==
    DataCheckWindow(doc, a, DefaultIndex(a.window, doc.selectedWindow, Len(doc.windows)))

\* Lines 597-598 and 617-618: window['tabs'][window['selected']-1] and its
\* current entry can be read.
SelectedTabOk(window) ==
    /\ PyIndexOk(window.tabs, window.selected - 1)
    /\ tabs_info(window.tabs[PyIndexPos(window.tabs, window.selected - 1)]).ok

\* Lines 569-600: the listing of the windows reads the current tab of every
\* window unless --quiet is given; TRUE when no read raises.
ShowWindowsOk(doc, a, w, t) ==
    a.quiet \/
    \A i \in DOMAIN doc.windows :
        IF i = w THEN tabs_info(doc.windows[i].tabs[t]).ok
        ELSE SelectedTabOk(doc.windows[i])

\* wselect, had it stored the 0-based index.
wselectZeroBased(doc, w) == [doc EXCEPT !.selectedWindow = w - 1]

\* Lines 606-607.
wselect(doc, w) == [doc EXCEPT !.selectedWindow = w]

\* tselect, had it also made the tab's window the selected one.
tselectWithWindow(doc, w, t) ==
    [doc EXCEPT !.windows[w].selected = t, !.selectedWindow = w]

\* Lines 608-609.
tselect(doc, w, t) == [doc EXCEPT !.windows[w].selected = t]

\* Lines 612-613 and 624-625: the adjustment of a selection after a pop.
AdjustSelected(newLen, selected) == IF newLen > selected THEN newLen ELSE selected

\* PopWindow, had it popped at args.window instead of args.window-1.
PopWindowOffByOne(doc, w) ==
    [doc EXCEPT !.windows = RemoveAt(@, w + 1),
                !.selectedWindow = AdjustSelected(Len(doc.windows) - 1, @)]

\* Lines 611-613: the document once the window is popped.
PopWindow(doc, w) ==
    [doc EXCEPT !.windows = RemoveAt(@, w),
                !.selectedWindow = AdjustSelected(Len(doc.windows) - 1, @)]

\* Lines 614-616: the popped window, without busy and with closedAt.
StampWindow(window, now) == SetKey(DelKey(window, "busy"), "closedAt", now)

\* Lines 618-620: the title is that of the current entry url.
LogWindow(popped, window, url) ==
    IF ~url.ok THEN [ok |-> FALSE, err |-> "IndexError", doc |-> popped]
    ELSE IF "title" \notin DOMAIN url.val
    THEN [ok |-> FALSE, err |-> "KeyError", doc |-> popped]
    ELSE [ok |-> TRUE, err |-> "",
          doc |-> [popped EXCEPT !._closedWindows =
                      Append(@, SetKey(window, "title", url.val.title))]]

\* Lines 610-620.
wclose(doc, w, now) ==
    IF ~PyIndexOk(doc.windows[w].tabs, doc.windows[w].selected - 1)
    THEN [ok |-> FALSE, err |-> "IndexError", doc |-> PopWindow(doc, w)]
    ELSE LogWindow(PopWindow(doc, w), StampWindow(doc.windows[w], now),
                   tabs_info(doc.windows[w].tabs[
                       PyIndexPos(doc.windows[w].tabs, doc.windows[w].selected - 1)]))

\* Lines 622-625: the document once the tab is popped.
PopTab(doc, w, t) ==
    [doc EXCEPT !.windows[w].tabs = RemoveAt(@, t),
                !.windows[w].selected = AdjustSelected(Len(doc.windows[w].tabs) - 1, @)]

\* Lines 627-631.
WithTitle(closed, url) ==
    IF "title" \in DOMAIN url THEN SetKey(closed, "title", url.title) ELSE closed
WithImage(closed, tab) ==
    IF "image" \in DOMAIN tab THEN SetKey(closed, "image", tab.image) ELSE closed
ClosedTab(tab, url, pos, now) ==
    WithImage(WithTitle([closedAt |-> now, pos |-> pos, state |-> tab], url), tab)

\* LogTab, had it put the record at the front of the log.
LogTabInFront(popped, w, t, tab, url, now) ==
    IF ~url.ok THEN [ok |-> FALSE, err |-> "IndexError", doc |-> popped]
    ELSE [ok |-> TRUE, err |-> "",
          doc |-> [popped EXCEPT !.windows[w]._closedTabs =
                      <<ClosedTab(tab, url.val, t, now)>> \o @]]

\* Lines 626-632.
LogTab(popped, w, t, tab, url, now) ==
    IF ~url.ok THEN [ok |-> FALSE, err |-> "IndexError", doc |-> popped]
    ELSE [ok |-> TRUE, err |-> "",
          doc |-> [popped EXCEPT !.windows[w]._closedTabs =
                      Append(@, ClosedTab(tab, url.val, t, now))]]

\* Lines 621-632.
tclose(doc, w, t, now) ==
    LogTab(PopTab(doc, w, t), w, t, doc.windows[w].tabs[t],
           tabs_info(doc.windows[w].tabs[t]), now)

\* MarkReached, had it only added the events the map lacks (setdefault).
RECURSIVE MarkAbsent(_, _)
MarkAbsent(cp, i) ==
    IF i > Len(checkpointOrder) THEN cp
    ELSE MarkAbsent(IF DictHas(cp, checkpointOrder[i]) THEN cp
                    ELSE DictSet(cp, checkpointOrder[i], TRUE), i + 1)

\* Line 635: checkpoints.update(dict((k, True) for k in checkpointOrder)).
RECURSIVE MarkReached(_, _)
MarkReached(cp, i) ==
    IF i > Len(checkpointOrder) THEN cp
    ELSE MarkReached(DictSet(cp, checkpointOrder[i], TRUE), i + 1)

\* Lines 634-635.
FixCheckpoints(checkpoints) ==
    IF checkpoints # None THEN <<MarkReached(checkpoints[1], 1)>> ELSE checkpoints

\* Lines 636-639.
StopSession(session) ==
    IF "state" \in DOMAIN session THEN [session EXCEPT !.state = "stopped"] ELSE session
\* FixSession, had it left recentCrashes in place.
FixSessionKeepCrashes(session) == StopSession(session)

FixSession(session) == DelKey(StopSession(session), "recentCrashes")

\* Lines 640-644: the test for a crash-recovery wrapper, conjunct by conjunct
\* as "and" evaluates it: "yes", "no", or "raise" for a KeyError.
SessionRestore == "about:sessionrestore"

IsRestoreTab(tab) ==
    IF "entries" \notin DOMAIN tab THEN "raise"
    ELSE IF Len(tab.entries) # 1 THEN "no"
    ELSE IF "url" \notin DOMAIN tab.entries[1] THEN "raise"
    ELSE IF tab.entries[1].url # SessionRestore THEN "no"
    ELSE IF "formdata" \notin DOMAIN tab THEN "raise"
    ELSE IF "url" \notin DOMAIN tab.formdata THEN "raise"
    ELSE IF tab.formdata.url # SessionRestore THEN "no"
    ELSE "yes"

IsWrapper(doc) ==
    IF Len(doc.windows) # 1 THEN "no"
    ELSE IF Len(doc.windows[1].tabs) # 1 THEN "no"
    ELSE IsRestoreTab(doc.windows[1].tabs[1])

\* Line 645: the document becomes the session the wrapper carries.
Unwrap(fixed, cp, formdata) ==
    IF "id" \in DOMAIN formdata /\ "sessionData" \in DOMAIN formdata.id
    THEN [ok |-> TRUE, err |-> "", doc |-> formdata.id.sessionData, checkpoints |-> cp]
    ELSE [ok |-> FALSE, err |-> "KeyError", doc |-> fixed, checkpoints |-> cp]

\* Lines 640-645, on the document with its session fixed.
FixWrapper(fixed, cp, wrapper) ==
    IF wrapper = "raise"
    THEN [ok |-> FALSE, err |-> "KeyError", doc |-> fixed, checkpoints |-> cp]
    ELSE IF wrapper = "no"
    THEN [ok |-> TRUE, err |-> "", doc |-> fixed, checkpoints |-> cp]
    ELSE Unwrap(fixed, cp, fixed.windows[1].tabs[1].formdata)

FixDocument(fixed, cp) == FixWrapper(fixed, cp, IsWrapper(fixed))

\* Lines 633-645.
fix(doc, checkpoints) ==
    FixDocument([doc EXCEPT !.session = FixSession(@)], FixCheckpoints(checkpoints))

\* Lines 606-645: the action of the run on the loaded store.
Proceed(a, doc, checkpoints, w, t, now) ==
    CASE a.action = "wselect" ->
            [ok |-> TRUE, err |-> "", doc |-> wselect(doc, w), checkpoints |-> checkpoints]
      [] a.action = "tselect" ->
            [ok |-> TRUE, err |-> "", doc |-> tselect(doc, w, t), checkpoints |-> checkpoints]
      [] a.action = "wclose" -> wclose(doc, w, now) @@ [checkpoints |-> checkpoints]
      [] a.action = "tclose" -> tclose(doc, w, t, now) @@ [checkpoints |-> checkpoints]
      [] a.action = "fix" -> fix(doc, checkpoints)
      [] OTHER -> [ok |-> TRUE, err |-> "", doc |-> doc, checkpoints |-> checkpoints]

\* Lines 647-661: the end of the run.  With --pretend the changes are only
\* shown; otherwise a run with an action saves.
WantSave(a) == a.action # "none"

\* SaveOrPretend, had it saved whenever an action is given.
SaveRegardless(files, st, a, doc, checkpoints) ==
    IF WantSave(a) THEN [files |-> Save(files, st, doc, checkpoints), saved |-> TRUE]
    ELSE [files |-> files, saved |-> FALSE]

SaveOrPretend(files, st, a, doc, checkpoints) ==
    IF WantSave(a) /\ a.pretend THEN [files |-> files, saved |-> FALSE]
    ELSE IF WantSave(a)
    THEN [files |-> Save(files, st, doc, checkpoints), saved |-> TRUE]
    ELSE [files |-> files, saved |-> FALSE]

NoDoc == [nodoc |-> TRUE]

\* What a run leaves behind when it ends before the store is loaded.
Aborted(files, a, target, outcome) ==
    [outcome |-> outcome, target |-> target, args |-> a,
     loaded |-> NoDoc, loadedCp |-> None, sessionstore |-> NoDoc, checkpoints |-> None,
     files |-> files, saved |-> FALSE]

\* What a run holds once the store is loaded and the arguments are defaulted.
Held(files, found, a, ld, chk) ==
    [outcome |-> "range", target |-> found,
     args |-> [a EXCEPT !.window = chk.window, !.tab = chk.tab],
     loaded |-> ld.sessionstore, loadedCp |-> ld.checkpoints,
     sessionstore |-> ld.sessionstore, checkpoints |-> ld.checkpoints,
     files |-> files, saved |-> FALSE]

\* Lines 647-661, r being what the action made of the store.
MainEnd(held, r, end) ==
    [held EXCEPT !.outcome = "ok", !.sessionstore = r.doc, !.checkpoints = r.checkpoints,
                 !.files = end.files, !.saved = end.saved]

\* Lines 606-661: an action that raises ends the run before the save.
MainProceeded(files, st, a, held, r) ==
    IF ~r.ok
    THEN [held EXCEPT !.outcome = r.err, !.sessionstore = r.doc,
                      !.checkpoints = r.checkpoints]
    ELSE MainEnd(held, r, SaveOrPretend(files, st, a, r.doc, r.checkpoints))

\* Lines 544-661, chk being the outcome of the data-specific checks.
MainChecked(files, st, a, now, ld, chk, held) ==
    IF chk.err # "" THEN held
    ELSE IF ~ShowWindowsOk(ld.sessionstore, a, chk.window[1], chk.tab[1])
    THEN [held EXCEPT !.outcome = "IndexError"]
    ELSE MainProceeded(files, st, a, held,
                       Proceed(a, ld.sessionstore, ld.checkpoints,
                               chk.window[1], chk.tab[1], now))

\* Lines 541-661, ld being the outcome of store.load().
MainLoaded(files, st, a, now, found, ld, chk) ==
    MainChecked(files, st, a, now, ld, chk, Held(files, found, a, ld, chk))

MainStore(files, st, a, now, found, ld) ==
    IF ~ld.ok THEN Aborted(files, a, found, "ValueError")
    ELSE MainLoaded(files, st, a, now, found, ld, DataCheck(ld.sessionstore, a))

\* Lines 523-661, found being what get_sessionstore returned.
MainFound(files, a, now, found) ==
    IF found.status = "RuntimeError" THEN Aborted(files, a, found, "RuntimeError")
    ELSE IF found.status = "none" THEN Aborted(files, a, found, "AssertionError")
    ELSE IF ArgumentError(a) THEN Aborted(files, a, found, "usage")
    ELSE MainStore(files, NewStore(found.cls, found.path), a, now, found,
                   Load(files, NewStore(found.cls, found.path)))

\* main(argv) from line 523 on, for the parsed arguments a at time now.
Main(files, haveLz4, path, a, now) ==
    MainFound(files, a, now, get_sessionstore(files, haveLz4, path))

(***************************************************************************)
(* The session documents the runs start from.  Window i of a document has  *)
(* up to MaxTabs tabs; the tabs differ in content so that every window and *)
(* every tab can be told from the others: a tab with one titled entry, one *)
(* with two entries and an image, one without entries but with a typed     *)
(* address, one whose entry has no title.  The stored selections range     *)
(* over the raw values a file may hold, 0 and length + 1 included, one     *)
(* departure from the plain document at a time; the index of a tab always  *)
(* points into its entries.                                                *)
(***************************************************************************)
Name(prefix, i, j) == prefix \o ToString(i) \o ToString(j)

TabAt(i, j) ==
    LET k == (2 * (i - 1) + (j - 1)) % 4
    IN CASE k = 0 ->
              [entries |-> <<[url |-> Name("url", i, j), title |-> Name("title", i, j)]>>,
               index |-> 1]
         [] k = 1 ->
              [entries |-> <<[url |-> Name("old", i, j), title |-> Name("oldtitle", i, j)],
                             [url |-> Name("url", i, j), title |-> Name("title", i, j)]>>,
               index |-> 2, image |-> Name("icon", i, j)]
         [] k = 2 -> [entries |-> <<>>, userTypedValue |-> Name("typed", i, j)]
         [] OTHER -> [entries |-> <<[url |-> Name("url", i, j)]>>, index |-> 1]

\* A closed-tab record and a closed window that the browser itself logged.
OldClosedTab ==
    [closedAt |-> 900, pos |-> 1, title |-> "gone",
     state |-> [entries |-> <<[url |-> "gone", title |-> "gone"]>>, index |-> 1]]

OldClosedWindow ==
    [tabs |-> <<[entries |-> <<>>]>>, selected |-> 1, _closedTabs |-> <<>>,
     screenX |-> 0, closedAt |-> 900, title |-> "New tab"]

Window(i, n, sel) ==
    LET w == [tabs |-> [j \in 1..n |-> TabAt(i, j)], selected |-> sel,
              _closedTabs |-> IF i = 1 THEN <<OldClosedTab>> ELSE <<>>,
              screenX |-> i]
    IN IF i % 2 = 1 THEN SetKey(w, "busy", FALSE) ELSE w

Sessions ==
    { [startTime |-> 0],
      [startTime |-> 0, state |-> "running"],
      [startTime |-> 0, recentCrashes |-> 1],
      [startTime |-> 0, state |-> "running", recentCrashes |-> 1] }

FullSession == [startTime |-> 0, state |-> "running", recentCrashes |-> 1]

\* shape[i] = [n, sel]: the number of tabs and the stored selection of window i.
Document(shape, selectedWindow, session) ==
    [selectedWindow |-> selectedWindow,
     windows |-> [i \in DOMAIN shape |-> Window(i, shape[i].n, shape[i].sel)],
     _closedWindows |-> <<OldClosedWindow>>,
     session |-> session]

\* The shapes swept: up to MaxWindows windows, at most one of which departs
\* from the plain window (MaxTabs tabs, the first one selected).
WindowShapes ==
    {p \in [n : 0..MaxTabs, sel : 0..(MaxTabs + 1)] : p.sel <= p.n + 1}
PlainWindow == [n |-> MaxTabs, sel |-> 1]
Shapes ==
    UNION {{shape \in [1..k -> WindowShapes] :
               Cardinality({i \in 1..k : shape[i] # PlainWindow}) <= 1} :
           k \in 0..MaxWindows}

\* The documents swept: every shape with the first window selected, and the
\* documents of plain windows with every stored selectedWindow, from 0 to one
\* past the number of windows.
PlainDocuments ==
    UNION {{Document([i \in 1..k |-> PlainWindow], sw, FullSession) : sw \in 0..(k + 1)} :
           k \in 0..MaxWindows}

SweepDocuments == {Document(shape, 1, FullSession) : shape \in Shapes} \cup PlainDocuments

BaseShape == <<[n |-> 2, sel |-> 1], [n |-> 1, sel |-> 1]>>
BaseDocument == Document(BaseShape, 1, FullSession)

\* A crash-recovery wrapper around inner, and one that lost its form data.
RestoreTab ==
    [entries |-> <<[url |-> SessionRestore, title |-> "Restore Session"]>>, index |-> 1]

Wrapper(inner, session) ==
    [selectedWindow |-> 1,
     windows |-> <<[tabs |-> <<SetKey(RestoreTab, "formdata",
                                  [url |-> SessionRestore, id |-> [sessionData |-> inner]])>>,
                    selected |-> 1, _closedTabs |-> <<>>, screenX |-> 1]>>,
     _closedWindows |-> <<OldClosedWindow>>,
     session |-> session]

BrokenWrapper(session) ==
    [selectedWindow |-> 1,
     windows |-> <<[tabs |-> <<RestoreTab>>, selected |-> 1, _closedTabs |-> <<>>,
                    screenX |-> 1]>>,
     _closedWindows |-> <<OldClosedWindow>>,
     session |-> session]

InnerDocument ==
    [Document(<<[n |-> 1, sel |-> 1]>>, 1, FullSession) EXCEPT !._closedWindows = <<>>]

VariantDocuments ==
    {Document(BaseShape, 1, session) : session \in Sessions}
        \cup {Wrapper(InnerDocument, session) : session \in Sessions}
        \cup {BrokenWrapper(FullSession)}

\* Checkpoint maps: the first three events reached (a running browser), a map
\* with a false event and an event outside the canonical order, the empty map.
RunningCheckpoints ==
    [i \in 1..3 |-> [k |-> checkpointOrder[i], v |-> TRUE]]

MixedCheckpoints ==
    << [k |-> "profile-after-change", v |-> TRUE],
       [k |-> "other-event", v |-> FALSE],
       [k |-> "quit-application", v |-> FALSE] >>

CheckpointFiles ==
    { DumpCheckpoints(RunningCheckpoints), DumpCheckpoints(MixedCheckpoints),
      DumpCheckpoints(<<>>), <<LBrace, KeyTok("final-ui-startup")>> }

\* A text with its last lexeme cut off: malformed JSON.
Cut(text) == SubSeq(text, 1, Len(text) - 1)

(***************************************************************************)
(* The file systems the runs start from.  UserDir is the directory (and    *)
(* the bare name) the user may give, UserFile a file the user may give.    *)
(***************************************************************************)
UserDir == <<"work">>
UserFile == <<"work", "sessionstore.js">>
NamedProfile == <<ProfilesRoot, "x.work">>
DefaultProfile == <<ProfilesRoot, "x.default">>

PrimaryFile(dir) == dir \o <<"sessionstore.js">>
BackupFile(dir) == dir \o <<"sessionstore-backups", "recovery.js">>
Lz4File(dir) == dir \o <<"sessionstore-backups", "recovery.jsonlz4">>
CheckpointsFile(dir) == dir \o <<"sessionCheckpoints.json">>

LayoutKinds ==
    {"profile2", "profile3", "profile4", "profile4-nolz4", "profile4-plain",
     "file", "file-alone", "primary-alone", "default", "named"}

\* The file system of a layout whose data file holds text and whose
\* checkpoint file holds cp, with the path the user gives.
Layout(kind, text, cp) ==
    LET packed == <<magicheader>> \o Lz4Compress(text)
    IN CASE kind = "profile2" ->
              [path |-> UserDir, haveLz4 |-> TRUE,
               files |-> (PrimaryFile(UserDir) :> text) @@ (CheckpointsFile(UserDir) :> cp)]
         [] kind = "profile3" ->
              [path |-> UserDir, haveLz4 |-> TRUE,
               files |-> (BackupFile(UserDir) :> text) @@ (CheckpointsFile(UserDir) :> cp)]
         [] kind = "profile4" ->
              [path |-> UserDir, haveLz4 |-> TRUE,
               files |-> (Lz4File(UserDir) :> packed) @@ (CheckpointsFile(UserDir) :> cp)]
         [] kind = "profile4-nolz4" ->
              [path |-> UserDir, haveLz4 |-> FALSE,
               files |-> (Lz4File(UserDir) :> packed) @@ (CheckpointsFile(UserDir) :> cp)]
         [] kind = "profile4-plain" ->
              [path |-> UserDir, haveLz4 |-> TRUE,
               files |-> (Lz4File(UserDir) :> text) @@ (CheckpointsFile(UserDir) :> cp)]
         [] kind = "file" ->
              [path |-> UserFile, haveLz4 |-> TRUE,
               files |-> (UserFile :> text) @@ (CheckpointsFile(UserDir) :> cp)]
         [] kind = "file-alone" ->
              [path |-> UserFile, haveLz4 |-> TRUE, files |-> (UserFile :> text)]
         [] kind = "primary-alone" ->
              [path |-> UserDir, haveLz4 |-> TRUE, files |-> (PrimaryFile(UserDir) :> text)]
         [] kind = "default" ->
              [path |-> NoPath, haveLz4 |-> TRUE,
               files |-> (Lz4File(DefaultProfile) :> packed)
                            @@ (CheckpointsFile(DefaultProfile) :> cp)]
         [] kind = "named" ->
              [path |-> UserDir, haveLz4 |-> FALSE,
               files |-> (BackupFile(NamedProfile) :> text)
                            @@ (CheckpointsFile(NamedProfile) :> cp)]

\* Every swept document in a profile directory; every layout with a plain
\* document and with a wrapper; every session and wrapper variant with every
\* checkpoint file; a data file with malformed JSON, plain and compressed.
RunLayouts ==
    {Layout("profile2", DumpDoc(d), DumpCheckpoints(RunningCheckpoints)) :
        d \in SweepDocuments}
    \cup {Layout(kind, DumpDoc(d), DumpCheckpoints(MixedCheckpoints)) :
            kind \in LayoutKinds,
            d \in {BaseDocument, Wrapper(InnerDocument, FullSession)}}
    \cup {Layout("profile2", DumpDoc(d), cp) :
            d \in VariantDocuments, cp \in CheckpointFiles}
    \cup {Layout(kind, Cut(DumpDoc(BaseDocument)), DumpCheckpoints(RunningCheckpoints)) :
            kind \in {"profile2", "profile4"}}

\* The arguments of a run: an action (or none), -w and -t (or neither), with
\* values from 0 to one past the largest window or tab count, --pretend, --quiet.
Actions == {"wselect", "tselect", "wclose", "tclose", "fix"}
Option(S) == {None} \cup {<<n>> : n \in S}

Arguments ==
    [action : Actions \cup {"none"},
     window : Option(0..(MaxWindows + 1)),
     tab : Option(0..(MaxTabs + 1)),
     pretend : BOOLEAN, quiet : BOOLEAN]

NoArguments ==
    [action |-> "none", window |-> None, tab |-> None, pretend |-> FALSE, quiet |-> FALSE]

\* int(time.time()) at the time of a run.
Times == {1000}

(***************************************************************************)
(* State.                                                                  *)
(*   files, haveLz4, path   the file system, whether the lz4 module could   *)
(*                         be imported, the FILE argument (NoPath: none)   *)
(*   pc                    "start" before the run, "done" after it         *)
(*   argv, args            the arguments as parsed, and as main leaves     *)
(*                         them (args.window and args.tab defaulted)       *)
(*   outcome               how the run ended: "ok", "usage" and "range"    *)
(*                         (parser.error), or the exception raised         *)
(*   target                what get_sessionstore returned                  *)
(*   loaded, loadedCp      store.sessionstore and store.checkpoints after  *)
(*                         load()                                          *)
(*   sessionstore, checkpoints   the same two at the end of the run        *)
(*   before                the file system at the start of the run         *)
(*   saved                 whether store.save() was called                 *)
(*   cpmap, described      an argument of showcheckpoint and its result    *)
(***************************************************************************)
VARIABLES files, haveLz4, path, pc, argv, args, outcome, target, loaded, loadedCp,
          sessionstore, checkpoints, before, saved, cpmap, described

vars == <<files, haveLz4, path, pc, argv, args, outcome, target, loaded, loadedCp,
          sessionstore, checkpoints, before, saved, cpmap, described>>

NotRun ==
    /\ pc = "start"
    /\ argv = NoArguments /\ args = NoArguments
    /\ outcome = "" /\ target = NotFound
    /\ loaded = NoDoc /\ loadedCp = None
    /\ sessionstore = NoDoc /\ checkpoints = None
    /\ before = files /\ saved = FALSE

Init ==
    /\ \E l \in RunLayouts : files = l.files /\ haveLz4 = l.haveLz4 /\ path = l.path
    /\ NotRun
    /\ cpmap = <<>> /\ described = <<>>

\* One run of main with arguments a.
Run(a) ==
    /\ pc = "start"
    /\ \E now \in Times :
          \E r \in {Main(files, haveLz4, path, a, now)} :
             /\ files' = r.files
             /\ outcome' = r.outcome
             /\ target' = r.target
             /\ args' = r.args
             /\ loaded' = r.loaded
             /\ loadedCp' = r.loadedCp
             /\ sessionstore' = r.sessionstore
             /\ checkpoints' = r.checkpoints
             /\ saved' = r.saved
    /\ argv' = a
    /\ before' = files
    /\ pc' = "done"
    /\ UNCHANGED <<haveLz4, path, cpmap, described>>

RunShow == \E a \in Arguments : a.action = "none" /\ Run(a)
RunWSelect == \E a \in Arguments : a.action = "wselect" /\ Run(a)
RunTSelect == \E a \in Arguments : a.action = "tselect" /\ Run(a)
RunWClose == \E a \in Arguments : a.action = "wclose" /\ Run(a)
RunTClose == \E a \in Arguments : a.action = "tclose" /\ Run(a)
RunFix == \E a \in Arguments : a.action = "fix" /\ Run(a)

Next == RunShow \/ RunWSelect \/ RunTSelect \/ RunWClose \/ RunTClose \/ RunFix

Spec == Init /\ [][Next]_vars

(***************************************************************************)
(* Properties of a run of main.                                            *)
(***************************************************************************)
\* The run has ended with the given action carried out.
Completed(action) == pc = "done" /\ outcome = "ok" /\ argv.action = action

\* new is old with its element at position i deleted, the others in order.
DeletedAt(new, old, i) ==
    /\ Len(new) = Len(old) - 1
    /\ \A j \in 1..Len(new) : new[j] = IF j < i THEN old[j] ELSE old[j + 1]

\* A fresh get_sessionstore and load() on the files the run left behind.
FreshStore == get_sessionstore(files, haveLz4, path)
FreshLoad == Load(files, NewStore(FreshStore.cls, FreshStore.path))

\* C1: after a completed wclose, selectedWindow does not exceed the new
\* number of windows; after a completed tclose, the selected index of the
\* window does not exceed its new number of tabs.
C1_SelectionWithinNewLength ==
    /\ Completed("wclose") =>
          sessionstore.selectedWindow <= Len(sessionstore.windows)
    /\ Completed("tclose") =>
          sessionstore.windows[args.window[1]].selected
              <= Len(sessionstore.windows[args.window[1]].tabs)

\* C2: a completed wclose leaves the windows of the loaded document with
\* exactly window w deleted; a completed tclose leaves the tabs of window w
\* with exactly tab t deleted, and the tabs of every other window as loaded.
C2_CloseDeletesExactlyOne ==
    /\ Completed("wclose") =>
          DeletedAt(sessionstore.windows, loaded.windows, args.window[1])
    /\ Completed("tclose") =>
          /\ Len(sessionstore.windows) = Len(loaded.windows)
          /\ \A i \in 1..Len(loaded.windows) :
                IF i = args.window[1]
                THEN DeletedAt(sessionstore.windows[i].tabs, loaded.windows[i].tabs,
                               args.tab[1])
                ELSE sessionstore.windows[i].tabs = loaded.windows[i].tabs

\* C2 witness: the first of two tabs was closed in the first of two windows.
C2_Witness ==
    /\ Completed("tclose")
    /\ Len(loaded.windows) = 2 /\ args.window = <<1>>
    /\ Len(loaded.windows[1].tabs) = 2 /\ args.tab = <<1>>

\* C3: after a completed and saved wselect of w, a fresh load yields
\* selectedWindow = w; after a completed and saved tselect of tab n in
\* window w, a fresh load yields windows[w].selected = n.
C3_SelectSurvivesReload ==
    /\ Completed("wselect") /\ saved =>
          /\ FreshLoad.ok
          /\ FreshLoad.sessionstore.selectedWindow = argv.window[1]
    /\ Completed("tselect") /\ saved =>
          /\ FreshLoad.ok
          /\ FreshLoad.sessionstore.windows[args.window[1]].selected = argv.tab[1]

\* C3 witness: a tab other than the stored one was selected and saved into
\* an lz4 file.
C3_Witness ==
    /\ Completed("tselect") /\ saved
    /\ target.cls = "MozSessionProfile4"
    /\ argv.tab = <<2>>
    /\ loaded.windows[args.window[1]].selected = 1

\* C4: after a completed and saved tselect, the document held and the
\* document on disk equal the loaded one except for windows[w].selected,
\* which is n; after wselect, except for selectedWindow, which is w.  The
\* checkpoint map, held and on disk, is the loaded one.
C4_SelectChangesOneField ==
    /\ Completed("tselect") /\ saved =>
          /\ sessionstore = [loaded EXCEPT !.windows[args.window[1]].selected = argv.tab[1]]
          /\ FreshLoad.ok /\ FreshLoad.sessionstore = sessionstore
          /\ checkpoints = loadedCp /\ FreshLoad.checkpoints = loadedCp
    /\ Completed("wselect") /\ saved =>
          /\ sessionstore = [loaded EXCEPT !.selectedWindow = argv.window[1]]
          /\ FreshLoad.ok /\ FreshLoad.sessionstore = sessionstore
          /\ checkpoints = loadedCp /\ FreshLoad.checkpoints = loadedCp

\* C4 witness: a window other than the stored one was selected and saved,
\* with a checkpoint map that holds a false and a non-canonical event.
C4_Witness ==
    /\ Completed("wselect") /\ saved
    /\ argv.window[1] # loaded.selectedWindow
    /\ loadedCp = <<MixedCheckpoints>>

\* The loaded session has a state and a recentCrashes field.
CrashedSession == {"state", "recentCrashes"} \subseteq DOMAIN loaded.session

\* The session is stopped without recentCrashes, the windows are as loaded.
FixedInPlace ==
    /\ "state" \in DOMAIN sessionstore.session
    /\ sessionstore.session.state = "stopped"
    /\ "recentCrashes" \notin DOMAIN sessionstore.session
    /\ sessionstore.windows = loaded.windows

\* C5 as stated: after a completed fix of a document whose session has a
\* state and a recentCrashes field, the session is stopped without
\* recentCrashes, and the windows are those loaded.
C5_FixLeavesWindows == Completed("fix") /\ CrashedSession => FixedInPlace

\* C5 amended: the same for every document that is not a crash-recovery
\* wrapper; for a wrapper, the document held after fix is the session data
\* the wrapper carries, whatever its session and windows.
C5_FixUnlessWrapper ==
    Completed("fix") /\ CrashedSession =>
        IF IsWrapper(loaded) = "yes"
        THEN sessionstore = loaded.windows[1].tabs[1].formdata.id.sessionData
        ELSE FixedInPlace

\* C5 witness: a running session with recent crashes and two windows was fixed.
C5_Witness ==
    /\ Completed("fix") /\ CrashedSession
    /\ IsWrapper(loaded) = "no"
    /\ loaded.session.state = "running"
    /\ Len(loaded.windows) = 2

Canonical == {checkpointOrder[i] : i \in DOMAIN checkpointOrder}

\* C6: after a completed fix with a checkpoint map loaded, the map holds
\* every canonical event as true, and its other keys with the values
\* loaded, and nothing else; a saved map is the one a fresh load reads.
\* With no map loaded, none is held and no file is created.
C6_FixMarksCanonical ==
    Completed("fix") =>
        IF loadedCp = None
        THEN checkpoints = None /\ DOMAIN files = DOMAIN before
        ELSE /\ checkpoints # None
             /\ DictKeys(checkpoints[1]) = DictKeys(loadedCp[1]) \cup Canonical
             /\ \A e \in Canonical : DictGet(checkpoints[1], e) = TRUE
             /\ \A e \in DictKeys(loadedCp[1]) \ Canonical :
                   DictGet(checkpoints[1], e) = DictGet(loadedCp[1], e)
             /\ saved => FreshLoad.ok /\ FreshLoad.checkpoints = checkpoints

\* C6 witness: a map with a false canonical event, a non-canonical event and
\* absent canonical events was fixed and saved.
C6_Witness ==
    /\ Completed("fix") /\ saved
    /\ loadedCp = <<MixedCheckpoints>>

\* C7: a run with --pretend, or without an action, leaves every file as it
\* was; save() is called only with an action and without --pretend, and no
\* file changes without it.
C7_DryRunLeavesFiles ==
    pc = "done" =>
        /\ (argv.pretend \/ argv.action = "none") => files = before
        /\ saved => argv.action # "none" /\ ~argv.pretend
        /\ files # before => saved

\* C7 witness: a window was closed in memory under --pretend.
C7_Witness ==
    /\ Completed("wclose") /\ argv.pretend
    /\ sessionstore # loaded
    /\ files = before

\* An index given on the command line lies outside 1..n.
GivenOutside(given, n) == given # None /\ ~(1 <= given[1] /\ given[1] <= n)

\* The window index, given or defaulted, is outside 1..len(windows).
WindowOutside ==
    GivenOutside(argv.window, Len(loaded.windows)) \/ loaded.windows = <<>>

\* The window is in range and the tab index, given or defaulted, is outside
\* 1..len(tabs) of that window.
TabOutside ==
    /\ ~WindowOutside
    /\ \/ GivenOutside(argv.tab, Len(loaded.windows[args.window[1]].tabs))
       \/ loaded.windows[args.window[1]].tabs = <<>>

\* The store was found and the arguments accepted, and its files do not load:
\* a wrong magic header or malformed JSON.
BadFormat ==
    /\ target.status = "found" /\ ~ArgumentError(argv)
    /\ ~Load(before, NewStore(target.cls, target.path)).ok

\* C8: a run on a loaded document with a window or tab index out of range
\* ends with the range error, a run on files that do not load ends with the
\* load error, and after either no file has changed and save() was not
\* called, whatever the action.
C8_ErrorsLeaveFiles ==
    pc = "done" =>
        /\ loaded # NoDoc /\ (WindowOutside \/ TabOutside) => outcome = "range"
        /\ BadFormat => outcome = "ValueError"
        /\ outcome \in {"range", "ValueError"} => files = before /\ ~saved

\* C8 witness: a tclose without --pretend was refused for a tab out of range
\* in a window in range.
C8_Witness ==
    /\ pc = "done" /\ outcome = "range"
    /\ argv.action = "tclose" /\ ~argv.pretend
    /\ loaded # NoDoc /\ TabOutside /\ argv.tab # None

\* a is an initial part of b.
IsPrefix(a, b) == Len(a) <= Len(b) /\ SubSeq(b, 1, Len(a)) = a

\* The position in the loaded document of the window that is the j-th
\* window after the action.
OpenBefore(j) ==
    IF argv.action = "wclose" /\ j >= args.window[1] THEN j + 1 ELSE j

\* The closed-window log as loaded is an initial part of the log held, and
\* so is the closed-tab log of every window that stays open.
LogsAppendOnly ==
    /\ IsPrefix(loaded._closedWindows, sessionstore._closedWindows)
    /\ \A j \in 1..Len(sessionstore.windows) :
          IsPrefix(loaded.windows[OpenBefore(j)]._closedTabs,
                   sessionstore.windows[j]._closedTabs)

\* C12 as stated: after every completed action (wselect, tselect, wclose,
\* tclose, fix) the closed-window log and the closed-tab logs of the windows
\* that stay open extend the loaded ones.
C12_LogsAppendOnly ==
    pc = "done" /\ outcome = "ok" /\ argv.action \in Actions => LogsAppendOnly

\* C12 amended: the same for every completed action except a fix of a
\* crash-recovery wrapper, which replaces the document and its logs by the
\* session data the wrapper carries.
C12_LogsAppendOnlyUnlessUnwrapped ==
    pc = "done" /\ outcome = "ok" /\ argv.action \in Actions =>
        IF argv.action = "fix" /\ IsWrapper(loaded) = "yes"
        THEN sessionstore = loaded.windows[1].tabs[1].formdata.id.sessionData
        ELSE LogsAppendOnly

\* C12 witness: a tab was closed in a window whose closed-tab log already
\* held a record.
C12_Witness ==
    /\ Completed("tclose")
    /\ loaded.windows[args.window[1]]._closedTabs # <<>>
    /\ Len(sessionstore.windows[args.window[1]]._closedTabs)
          = Len(loaded.windows[args.window[1]]._closedTabs) + 1

\* C14: a run given a regular file loads that file, paired with the
\* sessionCheckpoints.json of its directory exactly when that file exists, and
\* the load then holds a checkpoint map.
C14_FileLoadsCheckpoints ==
    pc = "done" /\ path = UserFile /\ loaded # NoDoc =>
        /\ NewStore(target.cls, target.path).sessionstore_fn = UserFile
        /\ IF IsFile(before, CheckpointsFile(UserDir))
           THEN /\ NewStore(target.cls, target.path).checkpoints_fn
                       = CheckpointsFile(UserDir)
                /\ loadedCp # None
           ELSE /\ NewStore(target.cls, target.path).checkpoints_fn = NoPath
                /\ loadedCp = None

\* The selection a close may leave: as it was when it fits the new count,
\* else the new count.
Clamped(selected, count) == IF selected <= count THEN selected ELSE count

\* C17: a completed wclose leaves selectedWindow as loaded when that is at
\* most the new number of windows, and equal to the new number otherwise; a
\* completed tclose does the same with the selected index of the window and
\* its new number of tabs.
C17_CloseOnlyClamps ==
    /\ Completed("wclose") =>
          sessionstore.selectedWindow
              = Clamped(loaded.selectedWindow, Len(sessionstore.windows))
    /\ Completed("tclose") =>
          sessionstore.windows[args.window[1]].selected
              = Clamped(loaded.windows[args.window[1]].selected,
                        Len(sessionstore.windows[args.window[1]].tabs))

\* The tab of a window that its selected index designates, as tabs_info
\* reads it: the current entry of that tab.
CurrentEntry(window) ==
    tabs_info(window.tabs[PyIndexPos(window.tabs, window.selected - 1)])

\* C18: a wclose run that passes the index validation completes, and the
\* last element of _closedWindows is then the removed window without busy,
\* with closedAt and with the title of the current entry of its current tab.
C18_CloseWindowLogsWindow ==
    pc = "done" /\ argv.action = "wclose" /\ loaded # NoDoc /\ outcome # "range" =>
        /\ outcome = "ok"
        /\ sessionstore._closedWindows # <<>>
        /\ \E now \in Times :
              sessionstore._closedWindows[Len(sessionstore._closedWindows)]
                  = SetKey(StampWindow(loaded.windows[args.window[1]], now), "title",
                           CurrentEntry(loaded.windows[args.window[1]]).val.title)

(***************************************************************************)
(* showcheckpoint on its own: the maps it is applied to are the prefixes   *)
(* of the canonical order with every event reached, in the order of the    *)
(* file and in the reverse order, and every ordered map of up to MaxEvents *)
(* items over a few events.                                                *)
(***************************************************************************)
MaxEvents == 3

PrefixMap(k) == [i \in 1..k |-> [k |-> checkpointOrder[i], v |-> TRUE]]
Reverse(m) == [i \in DOMAIN m |-> m[Len(m) + 1 - i]]

\* The first k canonical events, all reached but the j-th.
PrefixMapFalse(k, j) == [i \in 1..k |-> [k |-> checkpointOrder[i], v |-> i # j]]

EventNames ==
    {"profile-after-change", "final-ui-startup", "sessionstore-windows-restored",
     "quit-application-granted", "other-event"}

SmallMaps ==
    UNION {{m \in [1..n -> [k : EventNames, v : BOOLEAN]] :
               \A i, j \in 1..n : i # j => m[i].k # m[j].k} :
           n \in 0..MaxEvents}

CheckpointMaps ==
    {PrefixMap(k) : k \in 0..Len(checkpointOrder)}
        \cup {Reverse(PrefixMap(k)) : k \in 0..Len(checkpointOrder)}
        \cup {PrefixMapFalse(k, j) : k \in 1..Len(checkpointOrder), j \in 1..MaxEvents}
        \cup SmallMaps

InitDescribe ==
    /\ files = <<>> /\ haveLz4 = TRUE /\ path = NoPath
    /\ NotRun
    /\ cpmap \in CheckpointMaps /\ described = <<>>

Describe ==
    /\ pc = "start"
    /\ described' = showcheckpoint(cpmap)
    /\ pc' = "described"
    /\ UNCHANGED <<files, haveLz4, path, argv, args, outcome, target, loaded, loadedCp,
                   sessionstore, checkpoints, before, saved, cpmap>>

SpecDescribe == InitDescribe /\ [][Describe]_vars

(***************************************************************************)
(* get_sessionstore on its own: every set of session files in the          *)
(* directory the user may name, in the profile of that name and in the     *)
(* default profile, with and without lz4, for no path, the directory and   *)
(* the file in it.  The locator reads no file, so the files are empty.     *)
(***************************************************************************)
LocatorDirs == {UserDir, NamedProfile, DefaultProfile}

LocatorPaths ==
    UNION {{PrimaryFile(d), BackupFile(d), Lz4File(d), CheckpointsFile(d)} :
           d \in LocatorDirs}

InitLocate ==
    /\ \E S \in SUBSET LocatorPaths : files = [f \in S |-> <<>>]
    /\ haveLz4 \in BOOLEAN
    /\ path \in {NoPath, UserDir, UserFile}
    /\ NotRun
    /\ cpmap = <<>> /\ described = <<>>

Locate ==
    /\ pc = "start"
    /\ target' = get_sessionstore(files, haveLz4, path)
    /\ pc' = "located"
    /\ UNCHANGED <<files, haveLz4, path, argv, args, outcome, loaded, loadedCp,
                   sessionstore, checkpoints, before, saved, cpmap, described>>

SpecLocate == InitLocate /\ [][Locate]_vars

(***************************************************************************)
(* Runs of main one after another on the same profile: each run after the  *)
(* first starts from the files that a completed run with an action and     *)
(* without --pretend has saved.  The first run starts from a document with *)
(* a window, a tab in every window and every selection index in range.     *)
(***************************************************************************)
ValidDocument(d) ==
    /\ d.windows # <<>>
    /\ d.selectedWindow \in 1..Len(d.windows)
    /\ \A i \in 1..Len(d.windows) :
          /\ d.windows[i].tabs # <<>>
          /\ d.windows[i].selected \in 1..Len(d.windows[i].tabs)

\* The documents the first run starts from: one window with MaxTabs tabs, and
\* MaxWindows windows with one tab each.
ValidDocuments ==
    {d \in {Document(shape, 1, FullSession) :
                shape \in {<<[n |-> MaxTabs, sel |-> 1]>>,
                           [i \in 1..MaxWindows |-> [n |-> 1, sel |-> 1]]}} :
        ValidDocument(d)}

InitRuns ==
    /\ \E d \in ValidDocuments :
          files = Layout("profile2", DumpDoc(d), DumpCheckpoints(RunningCheckpoints)).files
    /\ haveLz4 = TRUE /\ path = UserDir
    /\ NotRun
    /\ cpmap = <<>> /\ described = <<>>

\* One more run of main with arguments a, on the files the last run saved.
Again(a) ==
    /\ pc = "done" /\ outcome = "ok" /\ saved
    /\ \E now \in Times :
          \E r \in {Main(files, haveLz4, path, a, now)} :
             /\ files' = r.files
             /\ outcome' = r.outcome
             /\ target' = r.target
             /\ args' = r.args
             /\ loaded' = r.loaded
             /\ loadedCp' = r.loadedCp
             /\ sessionstore' = r.sessionstore
             /\ checkpoints' = r.checkpoints
             /\ saved' = r.saved
    /\ argv' = a
    /\ before' = files
    /\ UNCHANGED <<pc, haveLz4, path, cpmap, described>>

\* The runs that change the store (an action, no --pretend) and the runs
\* without -w and -t, as the first run and as a later one.
RunChange ==
    \E a \in Arguments : a.action \in Actions /\ ~a.pretend /\ a.quiet /\ Run(a)
RunChangeAgain ==
    \E a \in Arguments : a.action \in Actions /\ ~a.pretend /\ a.quiet /\ Again(a)
RunPlain ==
    \E a \in Arguments : a.window = None /\ a.tab = None /\ a.quiet /\ Run(a)
RunPlainAgain ==
    \E a \in Arguments : a.window = None /\ a.tab = None /\ a.quiet /\ Again(a)

NextRuns == RunChange \/ RunChangeAgain \/ RunPlain \/ RunPlainAgain

SpecRuns == InitRuns /\ [][NextRuns]_vars

\* C19: from a valid document, after any number of completed runs that
\* saved, a run without -w and -t is not rejected by the index validation.
C19_SavedDocumentAccepted ==
    pc = "done" /\ argv.window = None /\ argv.tab = None => outcome # "range"

(***************************************************************************)
(* Properties of showcheckpoint.                                           *)
(***************************************************************************)
\* cpmap holds exactly the first k canonical events, every one true.
FirstReached(k) ==
    /\ DictKeys(cpmap) = {checkpointOrder[i] : i \in 1..k}
    /\ \A i \in DOMAIN cpmap : cpmap[i].v = TRUE

\* "<label of the k-th event> (<name of the k-th event>)"
Label(k) == <<checkpointNames[checkpointOrder[k]], " (", checkpointOrder[k], ")">>

BeginsWith(s, p) == Len(s) >= Len(p) /\ SubSeq(s, 1, Len(p)) = p

\* C9: showcheckpoint of the empty map is "Init"; of a map that holds exactly
\* the first k canonical events, all true, it begins with the label and the
\* name of the k-th event ("Running (sessionstore-windows-restored)" for
\* k = 3), and for all nine it is exactly "Stopped (profile-before-change)".
C9_DescribeReachedPrefix ==
    pc = "described" =>
        /\ cpmap = <<>> => described = <<"Init">>
        /\ \A k \in 1..9 : FirstReached(k) => BeginsWith(described, Label(k))
        /\ FirstReached(3) =>
              BeginsWith(described, <<"Running", " (", "sessionstore-windows-restored", ")">>)
        /\ FirstReached(9) =>
              described = <<"Stopped", " (", "profile-before-change", ")">>

\* C9 witness: a map with all nine events reached, last event first, was
\* described.
C9_Witness ==
    /\ pc = "described"
    /\ FirstReached(9) /\ cpmap[1].k = "profile-before-change"
    /\ described = <<"Stopped", " (", "profile-before-change", ")">>

\* What the scan of lines 414-425 leaves of the described map.
Scanned == ScanCheckpoints(1, <<"Init">>, cpmap, <<>>)

\* C15: when the scan recorded a skipped event and an entry remains in the
\* working copy, the description is the state, then "; skipped: " with the
\* skipped names, then "; " with the remaining entries: both suffixes.
C15_BothSuffixes ==
    pc = "described" /\ Scanned.skipped # <<>> /\ Scanned.work # <<>> =>
        described = Scanned.state \o <<"; skipped: ">> \o JoinNames(Scanned.skipped)
                        \o <<"; ">> \o JoinItems(Scanned.work)

\* The i-th canonical event is in the described map with value v.
EventIs(i, v) ==
    DictHas(cpmap, checkpointOrder[i]) /\ DictGet(cpmap, checkpointOrder[i]) = v

\* Every canonical event before the k-th is reached, or skippable and absent,
\* and the k-th is present with value false.
FirstFalse(k) ==
    /\ EventIs(k, FALSE)
    /\ \A i \in 1..(k - 1) :
          \/ EventIs(i, TRUE)
          \/ checkpointOrder[i] \in checkpointSkippable
                 /\ ~DictHas(cpmap, checkpointOrder[i])

\* The state after the last reached event before the k-th.
StateBefore(k) ==
    LET reached == {i \in 1..(k - 1) : EventIs(i, TRUE)}
    IN IF reached = {} THEN <<"Init">>
       ELSE Label(CHOOSE i \in reached : \A j \in reached : j <= i)

\* C16: the scan stops at the first canonical event present with value
\* false, skippable or not: the description begins with the state of the
\* last reached event before it.
C16_StopsAtFalse ==
    pc = "described" =>
        \A k \in 1..Len(checkpointOrder) :
            FirstFalse(k) => BeginsWith(described, StateBefore(k))

(***************************************************************************)
(* Properties of get_sessionstore.                                         *)
(***************************************************************************)
\* Of the session files of the directory the user names, only
\* sessionstore.js exists.
OnlyPrimary ==
    /\ IsFile(files, PrimaryFile(UserDir))
    /\ ~IsFile(files, BackupFile(UserDir))
    /\ ~IsFile(files, Lz4File(UserDir))
    /\ ~IsFile(files, CheckpointsFile(UserDir))

\* C10: for a directory that holds only sessionstore.js, get_sessionstore
\* returns a store whose data file is that sessionstore.js and that has no
\* checkpoint file.
C10_PrimaryAloneResolves ==
    pc = "located" /\ path = UserDir /\ OnlyPrimary =>
        /\ target.status = "found"
        /\ NewStore(target.cls, target.path).sessionstore_fn = PrimaryFile(UserDir)
        /\ NewStore(target.cls, target.path).checkpoints_fn = NoPath

\* C11: the store returned for a profile directory is never the legacy
\* backup while the compressed backup of that directory exists, and never the
\* primary file while either backup of that directory exists.
C11_HigherVariantFirst ==
    pc = "located" /\ target.status = "found" =>
        /\ target.cls = "MozSessionProfile3" => ~IsFile(files, Lz4File(target.path))
        /\ target.cls = "MozSessionProfile2" =>
              /\ ~IsFile(files, Lz4File(target.path))
              /\ ~IsFile(files, BackupFile(target.path))

\* C11 witness: the directory the user names holds the legacy backup and the
\* primary file, and the legacy backup was returned.
C11_Witness ==
    /\ pc = "located" /\ path = UserDir
    /\ IsFile(files, BackupFile(UserDir)) /\ IsFile(files, PrimaryFile(UserDir))
    /\ target = [status |-> "found", cls |-> "MozSessionProfile3", path |-> UserDir]

\* The directory probed first: the one the user names, or the default profile.
ProbedFirst == IF path = NoPath THEN DefaultProfile ELSE path

\* C13: when the compressed backup of the directory probed first exists and
\* lz4 is unavailable, get_sessionstore raises RuntimeError: it neither
\* finds nothing nor returns another store.
C13_NoLz4Raises ==
    pc = "located" /\ ~haveLz4 /\ IsFile(files, Lz4File(ProbedFirst)) =>
        target.status = "RuntimeError"

\* The data file of the store that get_sessionstore returned.
DataFile == NewStore(target.cls, target.path).sessionstore_fn

\* C20: with a path given, the store that get_sessionstore returns has its
\* data file at that path, inside the directory of that path, or inside the
\* profile directory named after it; it is never the store of a default
\* profile.
C20_StoreFromUserInput ==
    pc = "located" /\ path # NoPath /\ target.status = "found" =>
        \/ BeginsWith(DataFile, path)
        \/ BeginsWith(DataFile, UserDir)
        \/ BeginsWith(DataFile, NamedProfile)

=============================================================================
